---- MODULE Spec2Model ----
(***************************************************************************)
(* The Visualizer component (src/services/geminiService.ts, lines 53-447)  *)
(* and the theme service generateThemeFromGesture (lines 8-52), as a state *)
(* machine.                                                                *)
(*                                                                         *)
(* Numbers.  The code computes in IEEE doubles; the model computes in      *)
(* fixed point:                                                            *)
(*   - lengths (x, y, vx, vy, canvas sizes) in 1/PX of a physical pixel,   *)
(*   - time in milliseconds,                                               *)
(*   - life and maxLife in 1/LIFE_DEN of the code's unit, so that          *)
(*     "life -= deltaTime * 0.05" is the exact "life -= deltaTime",        *)
(*   - Math.random() results, landmark coordinates and the force factor    *)
(*     in thousandths,                                                     *)
(*   - theme.tension and theme.entropy in tenths, theme.geometryScale in   *)
(*     whole pixels,                                                       *)
(*   - angles in hundredths of a radian.                                   *)
(* A product of two scaled numbers is rounded to the nearest unit (Round). *)
(***************************************************************************)
EXTENDS Integers, Sequences, FiniteSets, TLC

\* ------------------------------------------------------------------ bounds

\* Number of animation frames the model runs.
MaxFrames == 4
\* Number of STRUCTURE / STARDUST particles the model carries (the code's
\* STRUCTURE_PARTICLE_COUNT = 150 and STARDUST_PARTICLE_COUNT = 300, scaled down).
STRUCTURE_PARTICLE_COUNT == 1
STARDUST_PARTICLE_COUNT == 1

\* ------------------------------------------------------- program constants

\* time - lastThemeUpdate.current > 4000
COOLDOWN == 4000
\* 300 * scaleFactor
INTERACTION_RADIUS == 300
\* closestDist < 200 * scaleFactor (FRAGMENT)
FRAGMENT_RADIUS == 200
\* (Math.random() - 0.5) * 50 * scaleFactor
RESPAWN_JITTER == 50
\* let closestDist = 99999
FAR == 99999
\* landmarks per hand (MediaPipe hand model; "i % 21 !== 20")
JOINTS_PER_HAND == 21

\* ----------------------------------------------------------- fixed point

\* units per physical pixel
PX == 100
\* p.life -= deltaTime * 0.05  (0.05 = 1 / LIFE_DEN)
LIFE_DEN == 20
\* Math.random() = r / RND_DEN, 0 <= r < RND_DEN
RND_DEN == 1000

\* n / d rounded to the nearest integer, halves away from zero (d > 0).
Round(n, d) == IF n >= 0 THEN (2 * n + d) \div (2 * d)
                         ELSE -((2 * (-n) + d) \div (2 * d))

\* Math.round(a / b) for b > 0: the nearest integer, halves towards +infinity.
MathRound(a, b) == (2 * a + b) \div (2 * b)

RECURSIVE IsqrtIter(_, _)
IsqrtIter(n, x) == LET y == (x + n \div x) \div 2
                   IN  IF y >= x THEN x ELSE IsqrtIter(n, y)

\* floor(sqrt(n))
Isqrt(n) == IF n = 0 THEN 0 ELSE IsqrtIter(n, n)

\* Math.hypot(dx, dy), rounded down to a whole unit.
Hypot(dx, dy) == Isqrt(dx * dx + dy * dy)

\* 1000 * sin(x) for 0 <= x <= pi, x in hundredths of a radian
\* (Bhaskara's rational approximation, pi = 3.14).
SinHalf(x) == (16000 * x * (314 - x)) \div (492980 - 4 * x * (314 - x))

\* 1000 * Math.sin(c / 100)
Sin1000(c) == LET m == c % 628
              IN  IF m < 314 THEN SinHalf(m) ELSE -SinHalf(m - 314)

\* 1000 * Math.cos(c / 100)
Cos1000(c) == Sin1000(c + 157)

\* ------------------------------------------------------------------ themes

\* A field the JSON object does not have (JavaScript's undefined).
Undefined == "undefined"
\* The same for a numeric field.
UndefinedNumber == -1

\* InteractionMode
InteractionMode == {"WEAVE", "CRYSTALLIZE", "FRAGMENT", "VOID", "RESONANCE"}

\* ThemeSchema.required
RequiredFields == {"primaryColor", "secondaryColor", "mode", "tension",
                   "entropy", "geometryScale", "description"}

DEFAULT_THEME ==
    [primaryColor |-> "#D4AF37", secondaryColor |-> "#1A237E", mode |-> "WEAVE",
     tension |-> 10, entropy |-> 2, geometryScale |-> 100,
     description |-> "Awaiting Input"]

\* A response that satisfies the schema.
ThemeVoid ==
    [primaryColor |-> "#C2B280", secondaryColor |-> "#003366", mode |-> "VOID",
     tension |-> 20, entropy |-> 10, geometryScale |-> 50,
     description |-> "Silent Dark Matter Hymn"]

\* Responses that satisfy the schema, for the other modes with a force branch.
ThemeCrystallize == [ThemeVoid EXCEPT !.mode = "CRYSTALLIZE", !.description = "Awaiting Input"]
ThemeFragment == [ThemeVoid EXCEPT !.mode = "FRAGMENT", !.description = "Awaiting Input"]

\* Responses that are valid JSON and violate the schema.
ThemeUnknownMode == [ThemeVoid EXCEPT !.mode = "SPIRAL"]
ThemeNoPrimary == [ThemeVoid EXCEPT !.primaryColor = Undefined]
ThemeNoTension == [ThemeVoid EXCEPT !.tension = UndefinedNumber]
ThemeNoDescription == [ThemeVoid EXCEPT !.description = Undefined]

\* The fields of a parsed object that are absent.
MissingFields(t) ==
    {f \in RequiredFields :
        \/ f \in {"primaryColor", "secondaryColor", "mode", "description"} /\ t[f] = Undefined
        \/ f \in {"tension", "entropy", "geometryScale"} /\ t[f] = UndefinedNumber}

\* Whether a parsed object satisfies ThemeSchema.
SchemaOk(t) == MissingFields(t) = {} /\ t.mode \in InteractionMode

\* String.prototype.toUpperCase on the descriptions the model uses.
ToUpperCase(s) ==
    CASE s = "Awaiting Input" -> "AWAITING INPUT"
      [] s = "Silent Dark Matter Hymn" -> "SILENT DARK MATTER HYMN"
      [] OTHER -> s

\* --------------------------------------------------------------- particles

\* The number of particles initParticles creates.
ParticleCount == STRUCTURE_PARTICLE_COUNT + STARDUST_PARTICLE_COUNT

\* The type of the i-th particle pushed by initParticles (1-based): the
\* STRUCTURE loop runs first, then the STARDUST loop.
TypeOf(i) == IF i <= STRUCTURE_PARTICLE_COUNT THEN "STRUCTURE" ELSE "STARDUST"

\* (Math.random() - 0.5) * k * PX, for Math.random() = r / RND_DEN and
\* k = kn / kd.
Centered(r, kn, kd) == Round((2 * r - RND_DEN) * kn * PX, 2 * RND_DEN * kd)

\* One particle as pushed by initParticles; s holds the Math.random() results
\* of its six calls that matter (size and color are only drawn, never read
\* back by the simulation, and are left out).
InitParticle(type, s, width, height, dpr) ==
    IF type = "STRUCTURE"
    THEN [x       |-> (s.x * width) \div RND_DEN,
          y       |-> (s.y * height) \div RND_DEN,
          vx      |-> Centered(s.vx, dpr, 2),
          vy      |-> Centered(s.vy, dpr, 2),
          life    |-> Round(s.life * 100 * LIFE_DEN, RND_DEN),
          maxLife |-> 100 * LIFE_DEN + Round(s.maxLife * 50 * LIFE_DEN, RND_DEN),
          type    |-> "STRUCTURE"]
    ELSE [x       |-> (s.x * width) \div RND_DEN,
          y       |-> (s.y * height) \div RND_DEN,
          vx      |-> Centered(s.vx, dpr, 10),
          vy      |-> Centered(s.vy, dpr, 10),
          life    |-> Round(s.life * 200 * LIFE_DEN, RND_DEN),
          maxLife |-> 200 * LIFE_DEN + Round(s.maxLife * 200 * LIFE_DEN, RND_DEN),
          type    |-> "STARDUST"]

\* initParticles(width, height, dpr): the store is replaced by a fresh array.
initParticles(width, height, dpr, seeds) ==
    [i \in 1..ParticleCount |-> InitParticle(TypeOf(i), seeds[i], width, height, dpr)]

\* --------------------------------------------------------- one frame step

\* Mutant of Expired: the respawn test written "p.life < 0".
ExpiredStrict(life) == life < 0

\* "p.life -= deltaTime * 0.05; if (p.life <= 0)": whether the particle is
\* respawned in this step.
Expired(life) == life <= 0

\* Lines 280-293: life decrement and respawn.  d holds this particle's
\* Math.random() results for the frame.
Respawn(p, deltaTime, tips, width, height, scaleFactor, d) ==
    LET life == p.life - deltaTime
        k    == IF p.type = "STRUCTURE" THEN 4 ELSE 1   \* 2 or 0.5, in halves
    IN  IF ~Expired(life) THEN [p EXCEPT !.life = life]
        ELSE IF Len(tips) > 0
        THEN LET source == tips[(d.src * Len(tips)) \div RND_DEN + 1]
             IN  [p EXCEPT !.life = p.maxLife,
                           !.x = source.x + Centered(d.jx, RESPAWN_JITTER * scaleFactor, 1),
                           !.y = source.y + Centered(d.jy, RESPAWN_JITTER * scaleFactor, 1),
                           !.vx = Centered(d.rvx, k * scaleFactor, 2),
                           !.vy = Centered(d.rvy, k * scaleFactor, 2)]
        ELSE [p EXCEPT !.life = p.maxLife,
                       !.x = (d.jx * width) \div RND_DEN,
                       !.y = (d.jy * height) \div RND_DEN]

\* Lines 298-303: the nearest tip by linear scan (the first of equal
\* distances), starting from closestDist = 99999 and target = tips[0].
Nearest(p, tips) ==
    LET dist == [i \in 1..Len(tips) |-> Hypot(tips[i].x - p.x, tips[i].y - p.y)]
        best == CHOOSE i \in 1..Len(tips) :
                    /\ \A j \in 1..Len(tips) : dist[i] <= dist[j]
                    /\ \A j \in 1..(i - 1) : dist[j] > dist[i]
    IN  IF dist[best] < FAR * PX
        THEN [target |-> tips[best], closestDist |-> dist[best]]
        ELSE [target |-> tips[1], closestDist |-> FAR * PX]

\* Mutant of InRange: no test of the distance.
InRangeAlways(closestDist, interactionDistance) == TRUE

\* "closestDist < interactionDistance"
InRange(closestDist, interactionDistance) == closestDist < interactionDistance

\* v * (1 - closestDist / interactionDistance) * kn / kd
Scaled(v, force, kn, kd) == Round(Round(v * force, 1000) * kn, kd)

\* Mutant of StructureForce: the oscillation for RESONANCE only, no force for
\* any other value.
StructureForceNoFallback(p, dx, dy, closestDist, force, theme, time, scaleFactor) ==
    IF theme.mode = "WEAVE"
    THEN [fx |-> Round(Scaled(dx, force, 2, 100) * theme.tension, 10) - Scaled(dy, force, 5, 100),
          fy |-> Round(Scaled(dy, force, 2, 100) * theme.tension, 10) + Scaled(dx, force, 5, 100)]
    ELSE IF theme.mode = "CRYSTALLIZE"
    THEN LET snapSize == theme.geometryScale * scaleFactor * PX
             snapX == MathRound(p.x, snapSize) * snapSize
             snapY == MathRound(p.y, snapSize) * snapSize
         IN  [fx |-> Round((snapX - p.x) * 5, 100) + Round(dx * 5, 1000),
              fy |-> Round((snapY - p.y) * 5, 100) + Round(dy * 5, 1000)]
    ELSE IF theme.mode = "FRAGMENT"
    THEN IF closestDist < FRAGMENT_RADIUS * scaleFactor * PX
         THEN [fx |-> -Scaled(dx, force, 1, 10), fy |-> -Scaled(dy, force, 1, 10)]
         ELSE [fx |-> 0, fy |-> 0]
    ELSE IF theme.mode = "VOID"
    THEN [fx |-> Scaled(dx, force, 8, 100), fy |-> Scaled(dy, force, 8, 100)]
    ELSE IF theme.mode = "RESONANCE"
    THEN [fx |-> Round(Sin1000(time + Round(p.y * 10, PX)) * scaleFactor * PX, 2000),
          fy |-> Round(Cos1000(time + Round(p.x * 10, PX)) * scaleFactor * PX, 2000)]
    ELSE [fx |-> 0, fy |-> 0]

\* Lines 311-336: the force on a STRUCTURE particle within range, by mode.
StructureForce(p, dx, dy, closestDist, force, theme, time, scaleFactor) ==
    IF theme.mode = "WEAVE"
    THEN [fx |-> Round(Scaled(dx, force, 2, 100) * theme.tension, 10) - Scaled(dy, force, 5, 100),
          fy |-> Round(Scaled(dy, force, 2, 100) * theme.tension, 10) + Scaled(dx, force, 5, 100)]
    ELSE IF theme.mode = "CRYSTALLIZE"
    THEN LET snapSize == theme.geometryScale * scaleFactor * PX
             snapX == MathRound(p.x, snapSize) * snapSize
             snapY == MathRound(p.y, snapSize) * snapSize
         IN  [fx |-> Round((snapX - p.x) * 5, 100) + Round(dx * 5, 1000),
              fy |-> Round((snapY - p.y) * 5, 100) + Round(dy * 5, 1000)]
    ELSE IF theme.mode = "FRAGMENT"
    THEN IF closestDist < FRAGMENT_RADIUS * scaleFactor * PX
         THEN [fx |-> -Scaled(dx, force, 1, 10), fy |-> -Scaled(dy, force, 1, 10)]
         ELSE [fx |-> 0, fy |-> 0]
    ELSE IF theme.mode = "VOID"
    THEN [fx |-> Scaled(dx, force, 8, 100), fy |-> Scaled(dy, force, 8, 100)]
    ELSE [fx |-> Round(Sin1000(time + Round(p.y * 10, PX)) * scaleFactor * PX, 2000),
          fy |-> Round(Cos1000(time + Round(p.x * 10, PX)) * scaleFactor * PX, 2000)]

\* Lines 338-343: the force on a STARDUST particle within range.
StardustForce(dx, dy, closestDist, force, theme, scaleFactor, d) ==
    LET jx == Round(Centered(d.ex, scaleFactor, 1) * theme.entropy, 10)
        jy == Round(Centered(d.ey, scaleFactor, 1) * theme.entropy, 10)
    IN  IF closestDist < INTERACTION_RADIUS * scaleFactor * PX
        THEN [fx |-> jx + Scaled(dx, force, 2, 1000), fy |-> jy + Scaled(dy, force, 2, 1000)]
        ELSE [fx |-> jx, fy |-> jy]

\* Mutant of Force: an ambient drift scaled by the theme's tension.
ForceThemedDrift(p, tips, theme, time, scaleFactor, d) ==
    IF Len(tips) > 0
    THEN LET n  == Nearest(p, tips)
             dx == n.target.x - p.x
             dy == n.target.y - p.y
             interactionDistance == INTERACTION_RADIUS * scaleFactor * PX
             force == 1000 - (n.closestDist * 1000) \div interactionDistance
         IN  IF InRange(n.closestDist, interactionDistance)
             THEN IF p.type = "STRUCTURE"
                  THEN StructureForce(p, dx, dy, n.closestDist, force, theme, time, scaleFactor)
                  ELSE StardustForce(dx, dy, n.closestDist, force, theme, scaleFactor, d)
             ELSE [fx |-> 0, fy |-> 0]
    ELSE [fx |-> Round(Sin1000(Round(p.y, PX) + Round(time, 20)) * scaleFactor * PX
                          * theme.tension, 1000000),
          fy |-> 0]

\* Lines 295-348: the force (fx, fy) on particle p.
Force(p, tips, theme, time, scaleFactor, d) ==
    IF Len(tips) > 0
    THEN LET n  == Nearest(p, tips)
             dx == n.target.x - p.x
             dy == n.target.y - p.y
             interactionDistance == INTERACTION_RADIUS * scaleFactor * PX
             force == 1000 - (n.closestDist * 1000) \div interactionDistance
         IN  IF InRange(n.closestDist, interactionDistance)
             THEN IF p.type = "STRUCTURE"
                  THEN StructureForce(p, dx, dy, n.closestDist, force, theme, time, scaleFactor)
                  ELSE StardustForce(dx, dy, n.closestDist, force, theme, scaleFactor, d)
             ELSE [fx |-> 0, fy |-> 0]
    ELSE [fx |-> Round(Sin1000(Round(p.y, PX) + Round(time, 20)) * scaleFactor * PX, 100000),
          fy |-> 0]

\* "p.vx *= (p.type === 'STRUCTURE' ? 0.92 : 0.98)"
Damp(v, type) == IF type = "STRUCTURE" THEN Round(v * 92, 100) ELSE Round(v * 98, 100)

\* "if (c < 0) c = size; if (c > size) c = 0"
Wrap(c, size) ==
    LET c1 == IF c < 0 THEN size ELSE c
    IN  IF c1 > size THEN 0 ELSE c1

\* Lines 350-362: accumulate the force, damp, integrate, wrap.
Integrate(p, f, width, height) ==
    LET vx == Damp(p.vx + f.fx, p.type)
        vy == Damp(p.vy + f.fy, p.type)
    IN  [p EXCEPT !.vx = vx, !.vy = vy,
                  !.x = Wrap(p.x + vx, width),
                  !.y = Wrap(p.y + vy, height)]

\* Lines 278-362: the update of one particle in one frame.
StepParticle(p, deltaTime, time, tips, theme, width, height, scaleFactor, d) ==
    LET q == Respawn(p, deltaTime, tips, width, height, scaleFactor, d)
    IN  Integrate(q, Force(q, tips, theme, time, scaleFactor, d), width, height)

\* ------------------------------------------------------------------ inputs

\* Animation-frame timestamps (ms).  Requests can be issued at COOLDOWN + 1
\* and 2 * COOLDOWN + 2; COOLDOWN lies exactly COOLDOWN after the initial
\* lastThemeUpdate of 0, and 2 * COOLDOWN lies less than COOLDOWN after a
\* request issued at COOLDOWN + 1.
Times == {0, COOLDOWN, COOLDOWN + 1, 2 * COOLDOWN, 2 * COOLDOWN + 2}

\* Math.random() results (thousandths) of one particle's initialisation.
SeedLow == [x |-> 0, y |-> 0, vx |-> 0, vy |-> 0, life |-> 0, maxLife |-> 0]
SeedHigh == [x |-> 999, y |-> 500, vx |-> 999, vy |-> 500, life |-> 999, maxLife |-> 999]

\* The Math.random() results of one initParticles call, per particle.
SeedsOf(choices) == {[i \in 1..(STRUCTURE_PARTICLE_COUNT + STARDUST_PARTICLE_COUNT) |-> sd] :
                        sd \in choices}

\* Math.random() results (thousandths) of one particle's frame step: the tip
\* index, the respawn position and velocity, the STARDUST jitter.
DrawLow == [src |-> 0, jx |-> 0, jy |-> 500, rvx |-> 0, rvy |-> 500, ex |-> 0, ey |-> 500]
DrawHigh ==
    [src |-> 999, jx |-> 999, jy |-> 500, rvx |-> 999, rvy |-> 500, ex |-> 999, ey |-> 500]

\* The Math.random() results of one frame, per particle.
DrawsOf(choices) == {[i \in 1..(STRUCTURE_PARTICLE_COUNT + STARDUST_PARTICLE_COUNT) |-> dd] :
                        dd \in choices}

\* getBoundingClientRect() of the container, in 1/PX of a CSS pixel, and
\* window.devicePixelRatio.
RectWhole == [width |-> 320 * PX, height |-> 100 * PX, dpr |-> 1]
RectHalf == [width |-> 320 * PX + PX \div 2, height |-> 100 * PX, dpr |-> 1]
RectRetina == [width |-> 160 * PX, height |-> 50 * PX, dpr |-> 2]

\* The fingertip landmarks (indices 4, 8, 12, 16, 20) of one detected hand,
\* normalised to thousandths.
HandLeft == [i \in 1..5 |-> [x |-> 1000, y |-> 200 * i - 200]]
HandRight == [i \in 1..5 |-> [x |-> 0, y |-> 500]]

\* What one frame reads from the sensor: ready is
\* videoRef.current.readyState >= 2, hands is results.landmarks of
\* detectForVideo (no hand, one hand, two hands).
Stalled == [ready |-> FALSE, hands |-> <<>>]
NoHand == [ready |-> TRUE, hands |-> <<>>]
OneHand == [ready |-> TRUE, hands |-> <<HandLeft>>]
TwoHands == [ready |-> TRUE, hands |-> <<HandLeft, HandRight>>]

\* What the theme service does with one request.
Failure(k) == [kind |-> k, data |-> DEFAULT_THEME]
Json(t) == [kind |-> "json", data |-> t]
Failures == {Failure(k) : k \in {"throw", "notext", "nonjson", "jsonnull"}}
Responses ==
    Failures \cup {Json(t) : t \in {ThemeVoid, ThemeUnknownMode, ThemeNoPrimary,
                                      ThemeNoTension, ThemeNoDescription}}

\* ------------------------------------------------------------------- state

VARIABLES
    mounted,          \* the Visualizer component is mounted
    setupPc,          \* where setupMediaPipe stands
    handLandmarker,   \* handLandmarkerRef.current is set
    srcObject,        \* videoRef.current.srcObject is set
    stream,           \* the camera stream: "none", "live", "stopped"
    isLoaded,         \* useState isLoaded
    theme,            \* useState theme
    geminiStatus,     \* useState geminiStatus
    dirty,            \* isLoaded or theme was set and the component has not re-rendered yet
    particles,        \* particles.current
    canvas,           \* canvasRef.current.width / height
    dpr,              \* window.devicePixelRatio
    handPoints,       \* handPoints.current
    handSkeleton,     \* handSkeleton.current.length
    lastThemeUpdate,  \* lastThemeUpdate.current
    frameId,          \* frameId.current
    pending,          \* animation-frame callbacks requested and not yet run or cancelled,
                      \* each with the closure of its render effect (theme, lastTime)
    requests,         \* theme requests in flight
    now,              \* the clock: the latest timestamp observed
    lastRaf,          \* timestamp of the latest animation frame, -1 before the first
    frames,           \* history: the number of animation frames run
    issued,           \* history: the timestamps at which theme requests were issued
    replaced,         \* history: the clock readings at which setTheme replaced the theme
    applied,          \* history: the issue times of the requests whose responses
                      \* setTheme installed, in the order of installation
    ev                \* history: what the latest step did

vars == <<mounted, setupPc, handLandmarker, srcObject, stream, isLoaded, theme,
          geminiStatus, dirty, particles, canvas, dpr, handPoints, handSkeleton,
          lastThemeUpdate, frameId, pending, requests, now, lastRaf, frames, issued,
          replaced, applied, ev>>

sensorVars == <<setupPc, handLandmarker, srcObject, stream>>
storeVars == <<particles, canvas, dpr>>
handVars == <<handPoints, handSkeleton>>
clockVars == <<now, lastRaf, frames>>
histVars == <<issued, replaced, applied>>

\* ------------------------------------------------------------ React pieces

\* A useState setter: React applies it only while the component is mounted
\* (a state update on an unmounted component is discarded).
SetState(old, new) == IF mounted THEN new ELSE old

\* "canvasRef.current.width = v": the canvas stores whole pixels.
CanvasSize(v) == (v \div PX) * PX

\* Mutant of HandleResize: the new particles are appended to the store.
HandleResizeAppends(rect, seeds) ==
    /\ dpr' = rect.dpr
    /\ canvas' = [width |-> CanvasSize(rect.width * rect.dpr),
                  height |-> CanvasSize(rect.height * rect.dpr)]
    /\ particles' = particles \o initParticles(rect.width * rect.dpr,
                                                rect.height * rect.dpr, rect.dpr, seeds)

\* Lines 156-172: handleResize.
HandleResize(rect, seeds) ==
    /\ dpr' = rect.dpr
    /\ canvas' = [width |-> CanvasSize(rect.width * rect.dpr),
                  height |-> CanvasSize(rect.height * rect.dpr)]
    /\ particles' = initParticles(rect.width * rect.dpr, rect.height * rect.dpr,
                                  rect.dpr, seeds)

\* requestAnimationFrame returns a handle that no live callback and no stored
\* handle carries.
NewId == CHOOSE n \in 1..(Cardinality(pending) + 2) :
            n # frameId /\ \A c \in pending : c.id # n

\* cancelAnimationFrame(id)
Cancel(callbacks, id) == {c \in callbacks : c.id # id}

\* Mutant of RenderCleanup: a cleanup that cancels nothing.
RenderCleanupNone == pending

\* Line 401: the cleanup of the render effect.
RenderCleanup == Cancel(pending, frameId)

\* Line 150: the cleanup of the sensor effect.
SensorCleanup == IF srcObject /\ stream = "live" THEN "stopped" ELSE stream

\* Unmounting the component runs the cleanups of its effects.
Unmount ==
    /\ mounted' = FALSE
    /\ stream' = SensorCleanup
    /\ pending' = RenderCleanup
    /\ dirty' = FALSE

\* ----------------------------------------------------------- theme service

\* Mutant of generateThemeFromGesture: a failure resolves to a fallback theme
\* instead of null.
generateThemeFallback(resp) ==
    IF resp.kind = "json" THEN {resp.data} ELSE {DEFAULT_THEME}

\* Lines 32-51: what generateThemeFromGesture resolves to, as a set: empty
\* for null, else the parsed object.  The call throws (caught, line 48), the
\* response has no text (line 43), JSON.parse throws (caught), the text is
\* the JSON null, or the text parses to an object, returned as it is.
generateThemeFromGesture(resp) ==
    IF resp.kind = "json" THEN {resp.data} ELSE {}

\* Mutant of CooldownElapsed: the timestamp compared without the last update.
CooldownIgnoresLast(time, last) == time > COOLDOWN

\* Mutant of CooldownElapsed: a window twice as long.
CooldownDoubled(time, last) == time - last > 2 * COOLDOWN

\* Line 233: the trigger of a theme request.
CooldownElapsed(time, last) == time - last > COOLDOWN

\* Mutant of Trigger: the cooldown alone, hands or no hands.
TriggerWithoutHands(detect, handCount, time, last) ==
    detect /\ CooldownElapsed(time, last)

\* Lines 205 and 233: a request is issued when detection ran in this frame
\* (the landmarker is set and the video has data), it reported at least one
\* hand, and the cooldown has elapsed.
Trigger(detect, handCount, time, last) ==
    detect /\ handCount > 0 /\ CooldownElapsed(time, last)

\* Lines 190-195: hexToRgba throws when hex is not a string (hex.slice).
hexToRgbaThrows(hex) == hex = Undefined

\* Line 433: the JSX reads theme.tension.toFixed(2), which throws when
\* tension is not a number.
JsxThrows(t) == t.tension = UndefinedNumber

\* ----------------------------------------------------------------- actions

\* The state after the component has mounted: the three effects have run
\* once (setupMediaPipe started, handleResize called, the render effect
\* returned early because isLoaded is false).
InitOn(rects, seeds) ==
    /\ mounted = TRUE
    /\ setupPc = "vision"
    /\ handLandmarker = FALSE
    /\ srcObject = FALSE
    /\ stream = "none"
    /\ isLoaded = FALSE
    /\ theme = DEFAULT_THEME
    /\ geminiStatus = "NEURAL LINK IDLE"
    /\ dirty = FALSE
    /\ \E rect \in rects, sd \in seeds :
          /\ dpr = rect.dpr
          /\ canvas = [width |-> CanvasSize(rect.width * rect.dpr),
                       height |-> CanvasSize(rect.height * rect.dpr)]
          /\ particles = initParticles(rect.width * rect.dpr, rect.height * rect.dpr,
                                       rect.dpr, sd)
    /\ handPoints = <<>>
    /\ handSkeleton = 0
    /\ lastThemeUpdate = 0
    /\ frameId = 0
    /\ pending = {}
    /\ requests = {}
    /\ now = 0
    /\ lastRaf = -1
    /\ frames = 0
    /\ issued = <<>>
    /\ replaced = <<>>
    /\ applied = <<>>
    /\ ev = [op |-> "mount"]

\* Lines 124-135: an await of setupMediaPipe before getUserMedia resolves
\* (forVisionTasks, then createFromOptions).
LoadModel ==
    /\ setupPc \in {"vision", "model"}
    /\ setupPc' = IF setupPc = "vision" THEN "model" ELSE "media"
    /\ handLandmarker' = (setupPc = "model")
    /\ ev' = [op |-> "load"]
    /\ UNCHANGED <<mounted, srcObject, stream, isLoaded, theme, geminiStatus, dirty,
                   storeVars, handVars, lastThemeUpdate, frameId, pending, requests,
                   clockVars, histVars>>

\* Lines 136-142: getUserMedia resolves; the stream is attached to the video
\* element and the loadeddata listener is added.
GetUserMedia ==
    /\ setupPc = "media"
    /\ setupPc' = "attached"
    /\ srcObject' = TRUE
    /\ stream' = "live"
    /\ ev' = [op |-> "stream"]
    /\ UNCHANGED <<mounted, handLandmarker, isLoaded, theme, geminiStatus, dirty,
                   storeVars, handVars, lastThemeUpdate, frameId, pending, requests,
                   clockVars, histVars>>

\* Lines 143-146: one of the awaits rejects (model load failure, camera
\* denied); the catch block sets the status.
SetupFails ==
    /\ setupPc \in {"vision", "model", "media"}
    /\ setupPc' = "failed"
    /\ geminiStatus' = SetState(geminiStatus, "SENSOR MALFUNCTION")
    /\ ev' = [op |-> "setupFailed"]
    /\ UNCHANGED <<mounted, handLandmarker, srcObject, stream, isLoaded, theme, dirty,
                   storeVars, handVars, lastThemeUpdate, frameId, pending, requests,
                   clockVars, histVars>>

\* Lines 138-142: the video element fires loadeddata.
LoadedData ==
    /\ setupPc = "attached"
    /\ stream = "live"
    /\ setupPc' = "loaded"
    /\ isLoaded' = SetState(isLoaded, TRUE)
    /\ dirty' = SetState(dirty, TRUE)
    /\ ev' = [op |-> "loadeddata"]
    /\ UNCHANGED <<mounted, handLandmarker, srcObject, stream, theme, geminiStatus,
                   storeVars, handVars, lastThemeUpdate, frameId, pending, requests,
                   clockVars, histVars>>

\* The window fires resize while the listener is attached (lines 175, 180).
ResizeOn(rects, seeds) ==
    /\ mounted
    /\ \E rect \in rects, sd \in seeds : HandleResize(rect, sd)
    /\ ev' = [op |-> "resize"]
    /\ UNCHANGED <<mounted, sensorVars, isLoaded, theme, geminiStatus, dirty, handVars,
                   lastThemeUpdate, frameId, pending, requests, clockVars, histVars>>

\* Mutant of RenderEffect: the new loop is started next to the callbacks
\* pending before the cleanup.
RenderEffectKeepsOld(callbacks) ==
    IF isLoaded
    THEN /\ pending' = pending \cup {[id |-> NewId, theme |-> theme, lastTime |-> now]}
         /\ frameId' = NewId
    ELSE /\ pending' = pending
         /\ frameId' = frameId

\* Lines 183-188 and 400-401: the effect body of the render effect, run with
\* the state of the render that scheduled it.
RenderEffect(callbacks) ==
    IF isLoaded
    THEN /\ pending' = callbacks \cup {[id |-> NewId, theme |-> theme, lastTime |-> now]}
         /\ frameId' = NewId
    ELSE /\ pending' = callbacks
         /\ frameId' = frameId

\* React re-renders the component after setIsLoaded or setTheme.  The JSX is
\* evaluated; when it throws, React unmounts the component (there is no error
\* boundary, src/App.tsx).  Otherwise the render effect, whose dependencies
\* [isLoaded, theme] changed, is cleaned up and run again.
Commit ==
    /\ mounted
    /\ dirty
    /\ IF JsxThrows(theme)
       THEN /\ Unmount
            /\ ev' = [op |-> "crash", cancelled |-> Cardinality(pending \ pending'),
                      stopped |-> (stream = "live" /\ stream' = "stopped")]
            /\ UNCHANGED frameId
       ELSE /\ RenderEffect(RenderCleanup)
            /\ dirty' = FALSE
            /\ ev' = [op |-> "commit", cancelled |-> Cardinality(pending \ RenderCleanup)]
            /\ UNCHANGED <<mounted, stream>>
    /\ UNCHANGED <<setupPc, handLandmarker, srcObject, isLoaded, theme, geminiStatus,
                   storeVars, handVars, lastThemeUpdate, requests, clockVars, histVars>>

\* The component is unmounted by its parent.
Teardown ==
    /\ mounted
    /\ Unmount
    /\ ev' = [op |-> "teardown", cancelled |-> Cardinality(pending \ pending'),
              stopped |-> (stream = "live" /\ stream' = "stopped")]
    /\ UNCHANGED <<setupPc, handLandmarker, srcObject, isLoaded, theme, geminiStatus,
                   storeVars, handVars, lastThemeUpdate, frameId, requests, clockVars,
                   histVars>>

\* Mutant of ThemeHandler: the theme and the status kept outside the
\* component's state (a module variable, a ref), written whether or not the
\* component is mounted.
ThemeHandlerUnguarded(newTheme) ==
    IF newTheme = {}
    THEN UNCHANGED <<theme, dirty, geminiStatus>>
    ELSE LET t == CHOOSE x \in newTheme : TRUE
         IN  /\ theme' = t
             /\ dirty' = SetState(dirty, TRUE)
             /\ geminiStatus' = IF t.description = Undefined
                                THEN geminiStatus
                                ELSE ToUpperCase(t.description)

\* Mutant of ThemeHandler: the response is merged into the installed theme
\* field by field, and only the fields of the force computation.
ThemeHandlerMerges(newTheme) ==
    IF newTheme = {}
    THEN UNCHANGED <<theme, dirty, geminiStatus>>
    ELSE LET t == CHOOSE x \in newTheme : TRUE
         IN  /\ theme' = SetState(theme, [theme EXCEPT !.mode = t.mode,
                                                        !.tension = t.tension,
                                                        !.entropy = t.entropy])
             /\ dirty' = SetState(dirty, TRUE)
             /\ geminiStatus' = IF t.description = Undefined
                                THEN geminiStatus
                                ELSE SetState(geminiStatus, ToUpperCase(t.description))

\* Lines 239-244: the handler of the request's promise.
ThemeHandler(newTheme) ==
    IF newTheme = {}
    THEN UNCHANGED <<theme, dirty, geminiStatus>>
    ELSE LET t == CHOOSE x \in newTheme : TRUE
         IN  /\ theme' = SetState(theme, t)
             /\ dirty' = SetState(dirty, TRUE)
             /\ geminiStatus' = IF t.description = Undefined
                                THEN geminiStatus
                                ELSE SetState(geminiStatus, ToUpperCase(t.description))

\* The theme service answers a request in flight, in any order and at any
\* time, and the promise's handler runs.
RespondOn(responses) ==
    \E r \in requests, resp \in responses :
        /\ requests' = requests \ {r}
        /\ ThemeHandler(generateThemeFromGesture(resp))
        /\ replaced' = IF mounted /\ generateThemeFromGesture(resp) # {}
                       THEN Append(replaced, now)
                       ELSE replaced
        /\ applied' = IF mounted /\ generateThemeFromGesture(resp) # {}
                      THEN Append(applied, r.issuedAt)
                      ELSE applied
        /\ ev' = [op |-> "respond", request |-> r, kind |-> resp.kind, data |-> resp.data,
                  themeBefore |-> theme, statusBefore |-> geminiStatus,
                  wasMounted |-> mounted]
        /\ UNCHANGED <<mounted, sensorVars, isLoaded, storeVars, handVars,
                       lastThemeUpdate, frameId, pending, clockVars, issued>>

\* Lines 213-230: the fingertips of the detected hands in canvas pixels,
\* mirrored in x.
Tips(hands, width, height) ==
    [i \in 1..(5 * Len(hands)) |->
        LET lm == hands[(i - 1) \div 5 + 1][((i - 1) % 5) + 1]
        IN  [x |-> ((1000 - lm.x) * width) \div 1000,
             y |-> (lm.y * height) \div 1000]]

\* Line 365: the colour a particle is drawn in.
BaseColor(type, t) == IF type = "STRUCTURE" THEN t.primaryColor ELSE t.secondaryColor

\* The index of the particle whose drawing throws (lines 368, 392), 0 when
\* the skeleton's drawing throws (line 259), particles.current.length + 1
\* when the frame draws everything.  A particle is updated before it is drawn.
ThrowAt(t, skeletonLength, store) ==
    IF skeletonLength > 0 /\ hexToRgbaThrows(t.secondaryColor) THEN 0
    ELSE LET bad == {i \in 1..Len(store) : hexToRgbaThrows(BaseColor(store[i].type, t))}
         IN  IF bad = {} THEN Len(store) + 1
             ELSE CHOOSE i \in bad : \A j \in bad : i <= j

\* Lines 197-398: one run of render, the animation-frame callback cb, at
\* timestamp time.  sensor is what the frame reads from the video element and
\* the detector, draws the Math.random() results per particle.  The particle
\* loop runs over particles.current.length (line 277).
Render(cb, time, sensor, draws) ==
    LET deltaTime == time - cb.lastTime
        detect == handLandmarker /\ sensor.ready
        hands == sensor.hands
        handCount == Len(hands)
        trigger == Trigger(detect, handCount, time, lastThemeUpdate)
        tips == IF detect THEN Tips(hands, canvas.width, canvas.height) ELSE handPoints
        skeleton == IF detect THEN JOINTS_PER_HAND * handCount ELSE handSkeleton
        stop == ThrowAt(cb.theme, skeleton, particles)
        length == Len(particles)
        rest == pending \ {cb}
    IN  /\ handPoints' = tips
        /\ handSkeleton' = skeleton
        /\ lastThemeUpdate' = IF trigger THEN time ELSE lastThemeUpdate
        /\ geminiStatus' = IF trigger THEN SetState(geminiStatus, "CALCULATING GEOMETRY...")
                                      ELSE geminiStatus
        /\ requests' = IF trigger
                       THEN requests \cup {[issuedAt |-> time, themeAtIssue |-> theme]}
                       ELSE requests
        /\ issued' = IF trigger THEN Append(issued, time) ELSE issued
        /\ particles' = [i \in 1..length |->
                            IF i <= stop
                            THEN StepParticle(particles[i], deltaTime, time, tips, cb.theme,
                                              canvas.width, canvas.height, dpr,
                                              draws[((i - 1) % ParticleCount) + 1])
                            ELSE particles[i]]
        /\ IF stop > length
           THEN /\ pending' = rest \cup {[id |-> NewId, theme |-> cb.theme, lastTime |-> time]}
                /\ frameId' = NewId
           ELSE /\ pending' = rest
                /\ frameId' = frameId
        /\ ev' = [op |-> "frame", time |-> time, deltaTime |-> deltaTime,
                  detected |-> detect, handCount |-> IF detect THEN handCount ELSE 0,
                  lastBefore |-> lastThemeUpdate,
                  requested |-> Cardinality(requests' \ requests),
                  threw |-> (stop <= length),
                  updated |-> IF stop > length THEN length ELSE stop,
                  scheduled |-> Cardinality(pending' \ pending),
                  theme |-> cb.theme,
                  wasMounted |-> mounted]

\* The browser runs a pending animation-frame callback.
FrameOn(times, readings, draws) ==
    \E cb \in pending, time \in times, sensor \in readings, dr \in draws :
        /\ frames < MaxFrames
        /\ time >= now
        /\ time > lastRaf
        /\ Render(cb, time, sensor, dr)
        /\ now' = time
        /\ lastRaf' = time
        /\ frames' = frames + 1
        /\ UNCHANGED <<mounted, sensorVars, isLoaded, theme, dirty, canvas, dpr, replaced, applied>>

\* The component with every sensor reading and every response of the theme
\* service, and one sequence of Math.random() results.
Init == InitOn({RectWhole}, SeedsOf({SeedLow}))
Resize == ResizeOn({RectWhole}, SeedsOf({SeedLow}))
Respond == RespondOn(Responses)
Frame == FrameOn(Times, {Stalled, NoHand, OneHand, TwoHands}, DrawsOf({DrawLow}))

Next ==
    \/ LoadModel
    \/ GetUserMedia
    \/ SetupFails
    \/ LoadedData
    \/ Resize
    \/ Commit
    \/ Teardown
    \/ Respond
    \/ Frame

Spec == Init /\ [][Next]_vars

\* The component with several Math.random() results and container sizes, and
\* a theme service that answers with themes that satisfy the schema.
SimInit == InitOn({RectHalf, RectRetina}, SeedsOf({SeedLow, SeedHigh}))
SimResize == ResizeOn({RectHalf, RectRetina}, SeedsOf({SeedLow, SeedHigh}))
SimRespond == RespondOn({Json(ThemeVoid), Json(ThemeCrystallize), Json(ThemeFragment)})
SimFrame == FrameOn(Times, {NoHand, OneHand}, DrawsOf({DrawLow, DrawHigh}))

SimNext ==
    \/ LoadModel
    \/ GetUserMedia
    \/ SetupFails
    \/ LoadedData
    \/ SimResize
    \/ Commit
    \/ Teardown
    \/ SimRespond
    \/ SimFrame

SimSpec == SimInit /\ [][SimNext]_vars

\* ------------------------------------------------------------------ claims

\* The response kinds that make generateThemeFromGesture fail: the call
\* throws, the response has no text, the text is not JSON.
FailureKinds == {"throw", "notext", "nonjson"}

\* C1: at the end of every frame step (elapsed frame time >= 0, with or
\* without targets, across respawns) every particle the step updated has
\* 0 < life <= maxLife.
C1_LifeInBounds ==
    ev.op = "frame" =>
        \A i \in 1..ev.updated :
            0 < particles[i].life /\ particles[i].life <= particles[i].maxLife

\* C1 witness: a frame with targets and elapsed time > 0 after which one
\* particle has just been respawned (life = maxLife) and another one has
\* aged without being respawned.
C1_Witness ==
    /\ ev.op = "frame"
    /\ ev.deltaTime > 0
    /\ handPoints # <<>>
    /\ \E i \in 1..ev.updated : particles[i].life = particles[i].maxLife
    /\ \E i \in 1..ev.updated : particles[i].life < particles[i].maxLife

\* C2 (as claimed): at the end of every frame step every particle the step
\* updated lies in the half-open box 0 <= x < width, 0 <= y < height.
C2_HalfOpenBox ==
    ev.op = "frame" =>
        \A i \in 1..ev.updated :
            /\ 0 <= particles[i].x /\ particles[i].x < canvas.width
            /\ 0 <= particles[i].y /\ particles[i].y < canvas.height

\* C3: any two successive theme requests are issued at least COOLDOWN ms
\* apart, and a frame less than COOLDOWN ms after the latest request issues
\* none, hands or no hands, across restarts of the frame loop.
C3_RequestsSpaced ==
    /\ \A i \in 1..(Len(issued) - 1) : issued[i + 1] - issued[i] >= COOLDOWN
    /\ (ev.op = "frame" /\ ev.time - ev.lastBefore < COOLDOWN) => ev.requested = 0

\* C3 witness: after a request and a theme swap, a frame with hands runs
\* less than COOLDOWN ms after the request and issues nothing; a second
\* request has been issued since.
C3_Witness ==
    /\ Len(issued) = 1
    /\ theme # DEFAULT_THEME
    /\ ev.op = "frame"
    /\ ev.theme = theme
    /\ ev.handCount > 0
    /\ ev.time - issued[1] < COOLDOWN
    /\ ev.requested = 0

\* C4 (as claimed): a frame in which the detector reports at least one hand
\* and time - lastThemeUpdate >= COOLDOWN, exactly COOLDOWN included, issues
\* exactly one request and sets the cooldown timer to its timestamp.
C4_AtLeastCooldown ==
    (ev.op = "frame" /\ ev.detected /\ ev.handCount > 0
        /\ ev.time - ev.lastBefore >= COOLDOWN)
    => (ev.requested = 1 /\ lastThemeUpdate = ev.time)

\* C4 (amended): a frame in which the detector reports at least one hand and
\* time - lastThemeUpdate > COOLDOWN issues exactly one request and sets the
\* cooldown timer to its timestamp in the same frame, while the request is
\* still in flight.
C4_MoreThanCooldown ==
    (ev.op = "frame" /\ ev.detected /\ ev.handCount > 0
        /\ ev.time - ev.lastBefore > COOLDOWN)
    => /\ ev.requested = 1
       /\ lastThemeUpdate = ev.time
       /\ \E r \in requests : r.issuedAt = ev.time

\* C4 witness: a frame with a hand exactly COOLDOWN + 1 ms after the previous
\* request has issued the second request.
C4_Witness ==
    /\ ev.op = "frame"
    /\ ev.handCount > 0
    /\ ev.lastBefore > 0
    /\ ev.time - ev.lastBefore = COOLDOWN + 1
    /\ ev.requested = 1
    /\ lastThemeUpdate = ev.time

\* C5 (as claimed): when a request fails, the theme after its completion is
\* the theme before the request was issued.
C5_ThemeAsAtIssue ==
    (ev.op = "respond" /\ ev.kind \in FailureKinds) => theme = ev.request.themeAtIssue

\* C5 (amended): when a request fails, its completion changes neither the
\* theme nor the cooldown timer, and every request issued after the failed
\* one was issued more than COOLDOWN ms after it.
C5_FailureChangesNothing ==
    (ev.op = "respond" /\ ev.kind \in FailureKinds)
    => /\ theme = ev.themeBefore
       /\ lastThemeUpdate >= ev.request.issuedAt
       /\ \A i \in 1..Len(issued) :
             issued[i] > ev.request.issuedAt
                => issued[i] - ev.request.issuedAt > COOLDOWN

\* C5 witness: the request that failed was issued while another theme than
\* the current one was in effect, and a later request has been issued.
C5_Witness ==
    /\ ev.op = "respond"
    /\ ev.kind \in FailureKinds
    /\ ev.wasMounted
    /\ theme # DEFAULT_THEME
    /\ Len(issued) = 2
    /\ ev.request.issuedAt = issued[1]

\* C6 (as claimed): a response that is valid JSON and violates the schema (a
\* missing required field, an unknown mode) leaves the theme unchanged.
C6_SchemaEnforced ==
    (ev.op = "respond" /\ ev.kind = "json" /\ ~SchemaOk(ev.data))
    => theme = ev.themeBefore

\* C7 (as claimed): every frame executed while the component is mounted
\* completes and schedules exactly one next frame.
C7_FrameSchedulesNext ==
    (ev.op = "frame" /\ ev.wasMounted) => (~ev.threw /\ ev.scheduled = 1)

C9_NoFrameAfterTeardown ==
    ~mounted => (pending = {} /\ ev.op # "frame")

\* C9 witness: teardown with a theme swap not yet rendered and a request in
\* flight has cancelled the pending callback of a running loop.
C9_Witness ==
    /\ ev.op = "teardown"
    /\ ev.cancelled = 1
    /\ lastRaf >= 0
    /\ requests # {}
    /\ theme # DEFAULT_THEME

\* C10 (as claimed): after teardown no camera stream is live.
C10_StreamReleased ==
    ~mounted => stream # "live"

\* C11 (as claimed): after camera acquisition was denied or the landmark
\* model failed to load, the frame loop has started: once the component has
\* rendered its latest state, an animation-frame callback is pending.
C11_DegradedLoopRuns ==
    (mounted /\ setupPc = "failed" /\ ~dirty) => pending # {}

\* C12: the particle store holds exactly STRUCTURE_PARTICLE_COUNT STRUCTURE
\* and STARDUST_PARTICLE_COUNT STARDUST particles, each particle keeps the
\* type it was created with, and a re-initialisation replaces the store.
C12_StoreCardinality ==
    /\ Len(particles) = STRUCTURE_PARTICLE_COUNT + STARDUST_PARTICLE_COUNT
    /\ Cardinality({i \in 1..Len(particles) : particles[i].type = "STRUCTURE"})
          = STRUCTURE_PARTICLE_COUNT
    /\ Cardinality({i \in 1..Len(particles) : particles[i].type = "STARDUST"})
          = STARDUST_PARTICLE_COUNT
    /\ \A i \in 1..Len(particles) : particles[i].type = TypeOf(i)

\* C12 witness: a resize re-initialises the store after frames have run, a
\* theme has been swapped in and a particle has been respawned at a fingertip.
C12_Witness ==
    /\ ev.op = "resize"
    /\ frames >= 2
    /\ theme # DEFAULT_THEME
    /\ handPoints # <<>>
    /\ Len(particles) = STRUCTURE_PARTICLE_COUNT + STARDUST_PARTICLE_COUNT

\* C13 (as claimed): immediately after a resize every particle lies in the
\* half-open box of the canvas, 0 <= x < canvas.width, 0 <= y < canvas.height.
C13_InsideCanvasAfterResize ==
    ev.op \in {"mount", "resize"} =>
        \A i \in 1..Len(particles) :
            /\ 0 <= particles[i].x /\ particles[i].x < canvas.width
            /\ 0 <= particles[i].y /\ particles[i].y < canvas.height

\* C14 (as claimed): any two successive replacements of the theme are at
\* least COOLDOWN ms apart.
C14_ReplacementsSpaced ==
    \A i \in 1..(Len(replaced) - 1) : replaced[i + 1] - replaced[i] >= COOLDOWN

\* The theme objects a frame can legitimately read: the default and the
\* objects the theme service delivers.
DeliveredThemes ==
    {DEFAULT_THEME, ThemeVoid, ThemeCrystallize, ThemeFragment, ThemeUnknownMode,
     ThemeNoPrimary, ThemeNoTension, ThemeNoDescription}

\* C15: the theme changes only when a response handler installs the whole
\* object of its response; every frame reads the one theme object its
\* callback was created with, which is the default or a whole delivered
\* object; and a callback is created with the installed theme or inherits the
\* theme of the callback that scheduled it.
C15_ThemeSwappedWhole ==
    [][/\ theme' # theme => (ev'.op = "respond" /\ theme' = ev'.data)
       /\ ev'.op = "frame" =>
             (ev'.theme \in {c.theme : c \in pending} /\ ev'.theme \in DeliveredThemes)
       /\ \A c \in pending' : c.theme \in {theme} \cup {d.theme : d \in pending}]_vars

\* C15 witness: a frame with hands has run on a delivered theme, after one
\* replacement of the default.
C15_Witness ==
    /\ ev.op = "frame"
    /\ ev.theme = ThemeVoid
    /\ ev.handCount > 0
    /\ ~ev.threw
    /\ Len(replaced) = 1

\* C16: after a frame that found the target set empty, the force on each
\* particle, of either type, is the same for every theme (and every
\* Math.random() result), given the same particle, time and scale.
C16_DriftIgnoresTheme ==
    (ev.op = "frame" /\ handPoints = <<>>) =>
        \A i \in 1..Len(particles), t \in DeliveredThemes :
            Force(particles[i], <<>>, t, ev.time, dpr, DrawHigh)
                = Force(particles[i], <<>>, DEFAULT_THEME, ev.time, dpr, DrawLow)

\* C16 witness: a frame without targets has run on a theme other than the
\* default, on a particle of each type for which the drift is not zero.
C16_Witness ==
    /\ ev.op = "frame"
    /\ handPoints = <<>>
    /\ ev.theme # DEFAULT_THEME
    /\ \A type \in {"STRUCTURE", "STARDUST"} :
          \E i \in 1..ev.updated :
              /\ particles[i].type = type
              /\ Force(particles[i], <<>>, ev.theme, ev.time, dpr, DrawLow).fx # 0

\* Mode values outside InteractionMode: a string the enumeration does not
\* have, and a missing mode.
UnrecognizedModes == {"SPIRAL", Undefined}

\* C17: after a frame with targets, for each STRUCTURE particle and those
\* targets, every unrecognized mode value gives the force that RESONANCE
\* gives, given the same time and scale.
C17_UnknownModesAsResonance ==
    (ev.op = "frame" /\ handPoints # <<>>) =>
        \A i \in 1..Len(particles), m \in UnrecognizedModes :
            particles[i].type = "STRUCTURE" =>
                Force(particles[i], handPoints, [ev.theme EXCEPT !.mode = m],
                      ev.time, dpr, DrawLow)
                    = Force(particles[i], handPoints, [ev.theme EXCEPT !.mode = "RESONANCE"],
                            ev.time, dpr, DrawLow)

\* C17 witness: a frame with targets has run on a theme whose mode is not in
\* the enumeration, and for a STRUCTURE particle the force of that mode is
\* not zero and is not the force of WEAVE, CRYSTALLIZE, FRAGMENT or VOID.
C17_Witness ==
    /\ ev.op = "frame"
    /\ handPoints # <<>>
    /\ ev.theme.mode \notin InteractionMode
    /\ \E i \in 1..ev.updated :
          /\ particles[i].type = "STRUCTURE"
          /\ LET f == Force(particles[i], handPoints, ev.theme, ev.time, dpr, DrawLow)
             IN  /\ f # [fx |-> 0, fy |-> 0]
                 /\ \A m \in {"WEAVE", "CRYSTALLIZE", "FRAGMENT", "VOID"} :
                       f # Force(particles[i], handPoints, [ev.theme EXCEPT !.mode = m],
                                 ev.time, dpr, DrawLow)

C19_RequestNeedsHand ==
    [][(lastThemeUpdate' # lastThemeUpdate \/ issued' # issued \/ requests' \ requests # {})
          => (ev'.op = "frame" /\ ev'.detected /\ ev'.handCount > 0)]_vars

\* C19 witness: a frame in which detection ran and reported no hand, more
\* than COOLDOWN ms after the only request so far, has issued nothing.
C19_Witness ==
    /\ ev.op = "frame"
    /\ ev.detected
    /\ ev.handCount = 0
    /\ Len(issued) = 1
    /\ ev.time - issued[1] > COOLDOWN
    /\ ev.requested = 0
    /\ lastThemeUpdate = issued[1]

\* C20: at most one animation-frame callback is pending; when the render
\* effect has re-run, the pending callback is the new loop's, carrying the
\* installed theme; and once the effect has re-run for the installed theme,
\* every frame that runs reads that theme.
C20_OneLoop ==
    /\ Cardinality(pending) <= 1
    /\ ev.op = "commit" => \A c \in pending : c.theme = theme
    /\ (ev.op = "frame" /\ ~dirty) => ev.theme = theme

\* C20 witness: the re-run of the render effect after a theme swap has
\* cancelled the old loop's pending callback and scheduled the new loop's.
C20_Witness ==
    /\ ev.op = "commit"
    /\ ev.cancelled = 1
    /\ theme # DEFAULT_THEME
    /\ frames > 0
    /\ Cardinality(pending) = 1
    /\ \A c \in pending : c.theme = theme

\* C21 (as claimed): responses are installed in the order in which their
\* requests were issued: a response installed later belongs to a request
\* issued later.
C21_AppliedInIssueOrder ==
    \A i \in 1..(Len(applied) - 1) : applied[i] < applied[i + 1]

\* C22 (as claimed): while the component is mounted and the status reads
\* 'CALCULATING GEOMETRY...', a theme request is in flight.
C22_CalculatingMeansInFlight ==
    (mounted /\ geminiStatus = "CALCULATING GEOMETRY...") => requests # {}

====
